---- MODULE Spec2Model ----
(***************************************************************************)
(* Binpat: a declarative decoder of binary data.  A pattern tree is        *)
(* executed against an ArrayBuffer by the recursive interpreter `exec`,    *)
(* which threads a mutable context (offset, endian, parent, data).         *)
(*                                                                         *)
(* The model is a small-step machine: the call stack of `exec` and of the  *)
(* handlers is the variable `stack`, the context objects live in the heap  *)
(* `ctxs`, and one action models one handler.                              *)
(***************************************************************************)
EXTENDS Integers, Sequences, FiniteSets, TLC

VARIABLES
  pattern,   \* Binpat.#pattern
  option,    \* the option the constructor was given
  endian,    \* Binpat.endian
  buf,       \* the bytes of the ArrayBuffer given to Binpat.exec
  status,    \* "idle" | "running" | "done" | "error"
  ctxs,      \* heap of BinpatContext objects; ctxs[1] is the root context
  stack,     \* activations of exec / handlers, innermost last
  ret,       \* value just returned by the innermost finished activation
  result,    \* what Binpat.exec returned (or the error it threw)
  reads,     \* history: offsets of the bytes of buf read so far by this decode
  last,      \* history: the step just taken and the state it started from
  given,     \* history: the bytes of the ArrayBuffer when Binpat.exec was called
  memo       \* history: the decodes this instance finished, when they are kept

vars ==
  <<pattern, option, endian, buf, status, ctxs, stack, ret, result, reads, last, given, memo>>

-----------------------------------------------------------------------------
(* Bounds of the model.                                                    *)

MaxShortLen == 3   \* buffers of every length up to this are enumerated
MaxCount == 2      \* literal array sizes 0..MaxCount
MaxJump == 2       \* seek / peek targets 0..MaxJump, skips -MaxJump..MaxJump
MaxRuns == 3       \* decodes one instance makes in turn when they are kept

-----------------------------------------------------------------------------
(* Sequences.                                                              *)

Reverse(s) == [i \in 1..Len(s) |-> s[Len(s) + 1 - i]]

Front(s) == SubSeq(s, 1, Len(s) - 1)

Last(s) == s[Len(s)]

-----------------------------------------------------------------------------
(* JavaScript values.  An integer is kept as sign and magnitude, the       *)
(* magnitude in base-256 digits, most significant first and without        *)
(* leading zeros, so that 32- and 64-bit values are exact.                 *)

Undefined == [t |-> "undefined"]

NoValue == [t |-> "none"]   \* no activation has just returned

Bool(b) == [t |-> "boolean", b |-> b]

RECURSIVE Strip(_)
Strip(digits) ==
  IF digits = <<>> THEN <<>>
  ELSE IF digits[1] = 0 THEN Strip(Tail(digits))
  ELSE digits

RECURSIVE Digits(_)
Digits(n) == IF n = 0 THEN <<>> ELSE Append(Digits(n \div 256), n % 256)

RECURSIVE Magnitude(_)
Magnitude(digits) ==
  IF digits = <<>> THEN 0 ELSE 256 * Magnitude(Front(digits)) + Last(digits)

Number(n) ==
  [t |-> "number", neg |-> n < 0, mag |-> Digits(IF n < 0 THEN -n ELSE n)]

\* the integer a (small) number value denotes
IntOf(v) == IF v.neg THEN -Magnitude(v.mag) ELSE Magnitude(v.mag)

\* the number NaN
NaN == [t |-> "NaN"]

\* a string value: the sequence of its code points
String(chars) == [t |-> "string", chars |-> chars]

\* magnitudes (base-256 digits, most significant first, no leading zero)
MagLess(a, b) ==
  \/ Len(a) < Len(b)
  \/ /\ Len(a) = Len(b)
     /\ \E i \in 1..Len(a) : a[i] < b[i] /\ \A j \in 1..(i - 1) : a[j] = b[j]

ZeroFill(digits, w) ==
  [i \in 1..w |-> IF i <= w - Len(digits) THEN 0 ELSE digits[i - (w - Len(digits))]]

\* a + b + carry for digit sequences of the same length, one digit longer
RECURSIVE SumDigits(_, _)
SumDigits(a, b) ==
  IF a = <<>> THEN <<0>>
  ELSE LET rest == SumDigits(Tail(a), Tail(b))
           sum == a[1] + b[1] + rest[1]
       IN <<sum \div 256, sum % 256>> \o Tail(rest)

\* a - b for digit sequences of the same length with a >= b: <<borrow>> \o digits
RECURSIVE DiffDigits(_, _)
DiffDigits(a, b) ==
  IF a = <<>> THEN <<0>>
  ELSE LET rest == DiffDigits(Tail(a), Tail(b))
           d == a[1] - b[1] - rest[1]
       IN IF d < 0 THEN <<1, d + 256>> \o Tail(rest) ELSE <<0, d>> \o Tail(rest)

MagAdd(a, b) ==
  LET w == IF Len(a) > Len(b) THEN Len(a) ELSE Len(b)
  IN Strip(SumDigits(ZeroFill(a, w), ZeroFill(b, w)))

\* a - b, for a >= b
MagSub(a, b) == Strip(Tail(DiffDigits(a, ZeroFill(b, Len(a)))))

\* x < y and x - y for numbers; with a NaN operand false and NaN
NumLess(x, y) ==
  /\ x.t = "number" /\ y.t = "number"
  /\ IF x.neg # y.neg THEN x.neg
     ELSE IF x.neg THEN MagLess(y.mag, x.mag) ELSE MagLess(x.mag, y.mag)

NumSub(x, y) ==
  IF x.t # "number" \/ y.t # "number" THEN NaN
  ELSE IF x.neg # y.neg THEN [t |-> "number", neg |-> x.neg, mag |-> MagAdd(x.mag, y.mag)]
  ELSE IF x.mag = y.mag THEN [t |-> "number", neg |-> FALSE, mag |-> <<>>]
  ELSE IF MagLess(y.mag, x.mag) THEN [t |-> "number", neg |-> x.neg, mag |-> MagSub(x.mag, y.mag)]
  ELSE [t |-> "number", neg |-> ~x.neg, mag |-> MagSub(y.mag, x.mag)]

\* ToBoolean
Truthy(v) ==
  CASE v.t \in {"undefined", "NaN"} -> FALSE
    [] v.t = "boolean" -> v.b
    [] v.t \in {"number", "bigint"} -> v.mag # <<>>
    [] v.t = "string" -> v.chars # <<>>
    [] OTHER -> TRUE

\* ToNumber, for the values an offset or a size is computed from
ToInt(v) ==
  CASE v.t = "boolean" -> IF v.b THEN 1 ELSE 0
    [] OTHER -> IntOf(v)

-----------------------------------------------------------------------------
(* Objects: ordered lists of (key, value) entries with distinct keys.  A   *)
(* key is the sequence of the characters of the property name.             *)

ObjHas(entries, key) == \E i \in 1..Len(entries) : entries[i].key = key

ObjGet(entries, key) ==
  IF ObjHas(entries, key)
  THEN entries[CHOOSE i \in 1..Len(entries) : entries[i].key = key].value
  ELSE Undefined

DigitChars == <<"0", "1", "2", "3", "4", "5", "6", "7", "8", "9">>

DigitOf(ch) == (CHOOSE d \in 1..10 : DigitChars[d] = ch) - 1

\* the property name of the array index n
RECURSIVE IndexKey(_)
IndexKey(n) ==
  IF n < 10 THEN <<DigitChars[n + 1]>>
  ELSE Append(IndexKey(n \div 10), DigitChars[(n % 10) + 1])

\* is key the canonical name of an array index
IsIndex(key) ==
  /\ key # <<>>
  /\ \A i \in 1..Len(key) : \E d \in 1..10 : DigitChars[d] = key[i]
  /\ (Len(key) = 1 \/ key[1] # "0")

RECURSIVE IndexValue(_)
IndexValue(key) ==
  IF key = <<>> THEN 0 ELSE 10 * IndexValue(Front(key)) + DigitOf(Last(key))

\* own property keys are listed integer indices first, ascending, then the
\* other names in the order they were created
KeyBefore(a, b) == IsIndex(a) /\ (~IsIndex(b) \/ IndexValue(a) < IndexValue(b))

\* obj[key] = value: an existing property keeps its place
ObjSet(entries, key, value) ==
  IF ObjHas(entries, key)
  THEN [i \in 1..Len(entries) |->
          IF entries[i].key = key THEN [key |-> key, value |-> value] ELSE entries[i]]
  ELSE LET n == Cardinality({i \in 1..Len(entries) : ~KeyBefore(key, entries[i].key)})
       IN SubSeq(entries, 1, n) \o <<[key |-> key, value |-> value]>>
            \o SubSeq(entries, n + 1, Len(entries))

RECURSIVE ObjAssign(_, _)
ObjAssign(target, source) ==
  IF source = <<>> THEN target
  ELSE ObjAssign(ObjSet(target, source[1].key, source[1].value), Tail(source))

ObjKeys(entries) == [i \in 1..Len(entries) |-> entries[i].key]

Object(entries) == [t |-> "object", entries |-> entries]

StartsWith(key, prefix) ==
  Len(key) >= Len(prefix) /\ SubSeq(key, 1, Len(prefix)) = prefix

-----------------------------------------------------------------------------
(* ArrayBuffer and DataView.  A buffer is the sequence of its bytes;       *)
(* offsets count from 0.                                                   *)

\* the TypedArray constructors createTypedHandler is applied to
Ctor(family, bits) == [family |-> family, bits |-> bits]

BYTES_PER_ELEMENT(ctor) == ctor.bits \div 8

\* a DataView getter accepts the span [off, off + w) or throws a RangeError
InRange(dv, off, w) == off >= 0 /\ off + w <= Len(dv)

Span(off, w) == off .. (off + w - 1)

\* the bytes of the span, most significant first
Ordered(dv, off, w, le) ==
  LET bytes == [i \in 1..w |-> dv[off + i]]
  IN IF le THEN Reverse(bytes) ELSE bytes

\* digits + 1, for digits that are not all 255
RECURSIVE AddOne(_)
AddOne(digits) ==
  IF Last(digits) < 255
  THEN Append(Front(digits), Last(digits) + 1)
  ELSE Append(AddOne(Front(digits)), 0)

\* 2^(8w) - value, for a w-digit value other than 0
TwosNegate(digits) == AddOne([i \in 1..Len(digits) |-> 255 - digits[i]])

\* ArrayBuffer.prototype.slice: a relative index counts from the end when it is
\* negative and is clamped to the buffer
SliceIndex(x, n) ==
  IF x < 0 THEN (IF n + x < 0 THEN 0 ELSE n + x) ELSE (IF x > n THEN n ELSE x)

\* the offsets of the bytes dv.buffer.slice(begin, end) copies
SliceSpan(dv, begin, end) ==
  SliceIndex(begin, Len(dv)) .. (SliceIndex(end, Len(dv)) - 1)

\* new Uint8Array(dv.buffer.slice(begin, end))
Slice(dv, begin, end) ==
  LET first == SliceIndex(begin, Len(dv))
      final == SliceIndex(end, Len(dv))
  IN [i \in 1..(IF final > first THEN final - first ELSE 0) |-> dv[first + i]]

\* the UTF-8 decoder of the Encoding standard, errors replaced by U+FFFD:
\* needed counts the continuation bytes still expected, within lower..upper
RECURSIVE Utf8Decode(_, _, _, _, _)
Utf8Decode(bytes, needed, cp, lower, upper) ==
  IF bytes = <<>> THEN (IF needed # 0 THEN <<65533>> ELSE <<>>)
  ELSE LET b == Head(bytes)
           rest == Tail(bytes)
       IN IF needed = 0
          THEN IF b < 128 THEN <<b>> \o Utf8Decode(rest, 0, 0, 128, 191)
               ELSE IF b \in 194..223 THEN Utf8Decode(rest, 1, b % 32, 128, 191)
               ELSE IF b \in 224..239
               THEN Utf8Decode(rest, 2, b % 16, IF b = 224 THEN 160 ELSE 128,
                               IF b = 237 THEN 159 ELSE 191)
               ELSE IF b \in 240..244
               THEN Utf8Decode(rest, 3, b % 8, IF b = 240 THEN 144 ELSE 128,
                               IF b = 244 THEN 143 ELSE 191)
               ELSE <<65533>> \o Utf8Decode(rest, 0, 0, 128, 191)
          ELSE IF b < lower \/ b > upper
          THEN <<65533>> \o Utf8Decode(bytes, 0, 0, 128, 191)
          ELSE IF needed = 1
          THEN <<cp * 64 + (b % 64)>> \o Utf8Decode(rest, 0, 0, 128, 191)
          ELSE Utf8Decode(rest, needed - 1, cp * 64 + (b % 64), 128, 191)

\* new TextDecoder('utf-8').decode(bytes): a leading byte order mark is dropped
TextDecode(bytes) ==
  LET chars == Utf8Decode(bytes, 0, 0, 128, 191)
  IN IF chars # <<>> /\ chars[1] = 65279 THEN Tail(chars) ELSE chars

UnsignedOf(t, msf) == [t |-> t, neg |-> FALSE, mag |-> Strip(msf)]

\* a slip: the sign bit is not interpreted
SignedAsUnsigned(t, msf) == [t |-> t, neg |-> FALSE, mag |-> Strip(msf)]

SignedOf(t, msf) ==
  IF msf[1] < 128 THEN UnsignedOf(t, msf)
  ELSE [t |-> t, neg |-> TRUE, mag |-> Strip(TwosNegate(msf))]

\* dv[method](off, le) with method = `get${constructor.name.slice(0, -5)}`
DataViewGet(ctor, dv, off, le) ==
  LET msf == Ordered(dv, off, BYTES_PER_ELEMENT(ctor), le)
  IN CASE ctor.family = "Uint" -> UnsignedOf("number", msf)
       [] ctor.family = "Int" -> SignedOf("number", msf)
       [] ctor.family = "BigUint" -> UnsignedOf("bigint", msf)
       [] ctor.family = "BigInt" -> SignedOf("bigint", msf)
       [] ctor.family = "Float" -> [t |-> "float", bits |-> ctor.bits, raw |-> msf]

-----------------------------------------------------------------------------
(* Pattern constructors.                                                   *)

\* a size, an offset or a condition: a literal or a function of the context
Lit(n) == [f |-> "literal", n |-> n]

\* (ctx) => ctx.data[key]
DataOf(key) == [f |-> "data", key |-> key]

\* (ctx) => ctx.parent?.data[key]
ParentDataOf(key) == [f |-> "parent.data", key |-> key]

\* (ctx) => ctx.offset + n
OffsetPlus(n) == [f |-> "offset+", n |-> n]

createTypedHandler(ctor, littleEndian) ==
  [k |-> "typed", ctor |-> ctor, littleEndian |-> littleEndian]

u8 == createTypedHandler(Ctor("Uint", 8), "undefined")

u16(le) == createTypedHandler(Ctor("Uint", 16), le)

u32(le) == createTypedHandler(Ctor("Uint", 32), le)

u64(le) == createTypedHandler(Ctor("BigUint", 64), le)

i8 == createTypedHandler(Ctor("Int", 8), "undefined")

i16(le) == createTypedHandler(Ctor("Int", 16), le)

i32(le) == createTypedHandler(Ctor("Int", 32), le)

i64(le) == createTypedHandler(Ctor("BigInt", 64), le)

f16(le) == createTypedHandler(Ctor("Float", 16), le)

f32(le) == createTypedHandler(Ctor("Float", 32), le)

f64(le) == createTypedHandler(Ctor("Float", 64), le)

bool == [k |-> "bool"]

\* string(size) with the default encoding 'utf-8'
string(size) == [k |-> "string", size |-> size, encoding |-> "utf-8"]

array(pat, size) == [k |-> "array", pattern |-> pat, size |-> size]

\* falsy is NoPattern when the third argument is not given
NoPattern == [k |-> "undefined"]

ternary(condition, truthy, falsy) ==
  [k |-> "ternary", condition |-> condition, truthy |-> truthy, falsy |-> falsy]

convert(pat, fn) == [k |-> "convert", pattern |-> pat, fn |-> fn]

\* the layout values: a number of bits, or what bitfield.u, .i and .bool return
Bits(size) == [type |-> "number", size |-> size]

bitfield_u(size) == [type |-> "u", size |-> size]

bitfield_i(size) == [type |-> "i", size |-> size]

bitfield_bool == [type |-> "bool", size |-> 1]

\* the option of bitfield: endian and first are "undefined" when not given
BitfieldOption(e, first) == [endian |-> e, first |-> first]

bitfield(field, opt) ==
  [k |-> "bitfield", field |-> ObjAssign(<<>>, field), option |-> opt]

seek(offset) == [k |-> "seek", offset |-> offset]

peek(offset, pat) == [k |-> "peek", offset |-> offset, pattern |-> pat]

skip(offset) == [k |-> "skip", offset |-> offset]

\* `//${random()}` and `...${random()}`; token is what random() returned
omit(token) == <<"/", "/">> \o token

spread(token) == <<".", ".", ".">> \o token

\* a native array of patterns
Sequence(items) == [k |-> "Array", items |-> items]

\* an object literal: a repeated key keeps its first place and its last value
Structure(fields) == [k |-> "object", entries |-> ObjAssign(<<>>, fields)]

Field(key, pat) == [key |-> key, value |-> pat]

\* any other value in a pattern decodes to itself
Literal(value) == [k |-> "literal", value |-> value]

-----------------------------------------------------------------------------
(* Contexts and the functions of the context.                              *)

\* BinpatContext; parent is an index into ctxs, 0 when there is none
Context(e, parent, offset, data) ==
  [endian |-> e, parent |-> parent, offset |-> offset, data |-> data]

\* what a function of the context returns
EvalFn(fn, heap, c) ==
  CASE fn.f = "data" -> ObjGet(heap[c].data, fn.key)
    [] fn.f = "parent.data" ->
         IF heap[c].parent = 0 THEN Undefined
         ELSE ObjGet(heap[heap[c].parent].data, fn.key)
    [] fn.f = "offset+" -> Number(heap[c].offset + fn.n)

\* typeof x === 'function' ? x(ctx) : x
Resolve(x, heap, c) == IF x.f = "literal" THEN x.n ELSE ToInt(EvalFn(x, heap, c))

\* fn(value, ctx) of convert: (value) => table[value]
ApplyFn(fn, value) ==
  IF value.t = "number" /\ ~value.neg /\ IntOf(value) < Len(fn.table)
  THEN fn.table[IntOf(value) + 1]
  ELSE Undefined

-----------------------------------------------------------------------------
(* The leaf handlers.  Each yields what it returns or throws, the offset   *)
(* it leaves in the context and the offsets of the bytes it read.          *)

Returns(value, offset, read) ==
  [throws |-> "", value |-> value, offset |-> offset, read |-> read]

Throws(name, offset) ==
  [throws |-> name, value |-> Undefined, offset |-> offset, read |-> {}]

\* a slip: littleEndian || ctx.endian === 'little'
EffectiveLittleOr(littleEndian, ctxEndian) ==
  littleEndian = "true" \/ ctxEndian = "little"

\* littleEndian ?? ctx.endian === 'little'
EffectiveLittle(littleEndian, ctxEndian) ==
  IF littleEndian = "undefined" THEN ctxEndian = "little" ELSE littleEndian = "true"

\* a slip: the offset advanced by the bit width
TypedHandlerBits(p, dv, ctx) ==
  LET le == EffectiveLittle(p.littleEndian, ctx.endian)
      w == BYTES_PER_ELEMENT(p.ctor)
  IN IF ~InRange(dv, ctx.offset, w) THEN Throws("RangeError", ctx.offset)
     ELSE Returns(DataViewGet(p.ctor, dv, ctx.offset, le),
                  ctx.offset + p.ctor.bits, Span(ctx.offset, w))

TypedHandler(p, dv, ctx) ==
  LET le == EffectiveLittle(p.littleEndian, ctx.endian)
      w == BYTES_PER_ELEMENT(p.ctor)
  IN IF ~InRange(dv, ctx.offset, w) THEN Throws("RangeError", ctx.offset)
     ELSE Returns(DataViewGet(p.ctor, dv, ctx.offset, le),
                  ctx.offset + w, Span(ctx.offset, w))

BoolHandler(p, dv, ctx) ==
  IF ~InRange(dv, ctx.offset, 1) THEN Throws("RangeError", ctx.offset)
  ELSE Returns(Bool(dv[ctx.offset + 1] # 0), ctx.offset + 1, {ctx.offset})

StringHandler(p, dv, heap, c) ==
  LET len == Resolve(p.size, heap, c)
      offset == heap[c].offset
  IN Returns(String(TextDecode(Slice(dv, offset, offset + len))), offset + len,
             SliceSpan(dv, offset, offset + len))

\* a slip: the bits of a byte written least significant first
ByteBitsReversed(byte) ==
  [i \in 1..8 |-> (byte \div (CASE i = 8 -> 128 [] i = 7 -> 64 [] i = 6 -> 32 [] i = 5 -> 16
                               [] i = 4 -> 8 [] i = 3 -> 4 [] i = 2 -> 2 [] i = 1 -> 1)) % 2]

\* byte.toString(2).padStart(8, '0')
ByteBits(byte) ==
  [i \in 1..8 |-> (byte \div (CASE i = 1 -> 128 [] i = 2 -> 64 [] i = 3 -> 32 [] i = 4 -> 16
                               [] i = 5 -> 8 [] i = 6 -> 4 [] i = 7 -> 2 [] i = 8 -> 1)) % 2]

\* [...bytes].map(...).join('')
RECURSIVE Content(_)
Content(bytes) == IF bytes = <<>> THEN <<>> ELSE ByteBits(Head(bytes)) \o Content(Tail(bytes))

\* the byte with the given 8 bits
BitsByte(bits) ==
  128 * bits[1] + 64 * bits[2] + 32 * bits[3] + 16 * bits[4]
    + 8 * bits[5] + 4 * bits[6] + 2 * bits[7] + bits[8]

\* Number.parseInt(bits, 2), for at most 53 bits; NaN for the empty string
ParseInt(bits) ==
  IF bits = <<>> THEN NaN
  ELSE LET w == (Len(bits) + 7) \div 8
           padded == ZeroFill(bits, 8 * w)
       IN [t |-> "number", neg |-> FALSE,
           mag |-> Strip([j \in 1..w |-> BitsByte(SubSeq(padded, 8 * j - 7, 8 * j))])]

\* 1 << n: the shift count is taken modulo 32 and the result is an int32
ShiftOne(n) ==
  LET count == n % 32
  IN [t |-> "number", neg |-> count = 31,
      mag |-> <<CASE count % 8 = 0 -> 1 [] count % 8 = 1 -> 2 [] count % 8 = 2 -> 4
                  [] count % 8 = 3 -> 8 [] count % 8 = 4 -> 16 [] count % 8 = 5 -> 32
                  [] count % 8 = 6 -> 64 [] count % 8 = 7 -> 128>>
                \o [i \in 1..(count \div 8) |-> 0]]

\* typedValue of a field of definition def whose bits parse to v
TypedValue(def, v) ==
  CASE def.type = "i" ->
         IF NumLess(v, ShiftOne(def.size - 1)) THEN v ELSE NumSub(v, ShiftOne(def.size))
    [] def.type = "bool" -> Bool(Truthy(v))
    [] OTHER -> v

\* option.endian || ctx.endian
BitfieldEndian(opt, ctx) == IF opt.endian # "undefined" THEN opt.endian ELSE ctx.endian

\* a slip: the numbering defaults to MSb whatever the byte order
BitfieldFirstMSb(opt, e) == IF opt.first # "undefined" THEN opt.first ELSE "MSb"

\* option.first || (endian === 'big' ? 'MSb' : 'LSb')
BitfieldFirst(opt, e) ==
  IF opt.first # "undefined" THEN opt.first ELSE IF e = "big" THEN "MSb" ELSE "LSb"

\* typeof value === 'number' ? { type: 'u', size: value } : value
Definition(value) == IF value.type = "number" THEN bitfield_u(value.size) ELSE value

RECURSIVE BitSize(_)
BitSize(kvs) == IF kvs = <<>> THEN 0 ELSE Head(kvs).value.size + BitSize(Tail(kvs))

\* a slip: Math.floor(bitSize / 8)
ByteSizeFloor(bitSize) == bitSize \div 8

\* Math.ceil(bitSize / 8)
ByteSize(bitSize) == (bitSize + 7) \div 8

\* what random() returns for the padding field of a bitfield
R3 == <<"3", "d">>

\* kvs with the padding field pushed when there are bits left in the last byte
WithPadding(kvs, endPadding) ==
  IF endPadding # 0 THEN Append(kvs, [key |-> omit(R3), value |-> bitfield_u(endPadding)])
  ELSE kvs

\* the entries kvs.map(...).filter(...) leaves: each field takes the next
\* value.size characters of content
RECURSIVE Walk(_, _)
Walk(kvs, content) ==
  IF kvs = <<>> THEN <<>>
  ELSE LET key == Head(kvs).key
           def == Head(kvs).value
           n == IF def.size > Len(content) THEN Len(content) ELSE def.size
           v == ParseInt(SubSeq(content, 1, n))
       IN (IF StartsWith(key, <<"/", "/">>) THEN <<>>
           ELSE <<[key |-> key, value |-> TypedValue(def, v)]>>)
            \o Walk(Tail(kvs), SubSeq(content, n + 1, Len(content)))

\* a slip: bytes is a view of the buffer, and reverse() reorders the buffer
ReversedInPlace(dv, begin, end, e) ==
  LET from == SliceIndex(begin, Len(dv))
      to == SliceIndex(end, Len(dv))
  IN IF e = "little" /\ from < to
     THEN [i \in 1..Len(dv) |-> IF from < i /\ i <= to THEN dv[from + to + 1 - i] ELSE dv[i]]
     ELSE dv

\* the buffer after bytes.reverse(): bytes is a copy made by slice
AfterReverse(dv, begin, end, e) == dv

\* a slip: the result is returned as the fields were processed
EmitProcessed(field, values) == Object(values)

\* Object.fromEntries(Object.keys(field).filter(...).map((key) => [key, result[key]]))
Emit(field, values) ==
  LET names == SelectSeq(ObjKeys(field), LAMBDA key : ~StartsWith(key, <<"/", "/">>))
  IN Object(ObjAssign(<<>>, [i \in 1..Len(names) |->
                               [key |-> names[i], value |-> ObjGet(values, names[i])]]))

BitfieldHandler(p, dv, ctx) ==
  LET e == BitfieldEndian(p.option, ctx)
      first == BitfieldFirst(p.option, e)
      declared == [i \in 1..Len(p.field) |->
                     [key |-> p.field[i].key, value |-> Definition(p.field[i].value)]]
      bitSize == BitSize(declared)
      byteSize == ByteSize(bitSize)
      padded == WithPadding(declared, byteSize * 8 - bitSize)
      kvs == IF first = "LSb" THEN Reverse(padded) ELSE padded
      sliced == Slice(dv, ctx.offset, ctx.offset + byteSize)
      bytes == IF e = "little" THEN Reverse(sliced) ELSE sliced
      values == ObjAssign(<<>>, Walk(kvs, Content(bytes)))
  IN Returns(Emit(p.field, values),
             ctx.offset + byteSize, SliceSpan(dv, ctx.offset, ctx.offset + byteSize))

\* the buffer once the bitfield handler has run
BitfieldBuffer(p, dv, ctx) ==
  LET e == BitfieldEndian(p.option, ctx)
      declared == [i \in 1..Len(p.field) |->
                     [key |-> p.field[i].key, value |-> Definition(p.field[i].value)]]
      byteSize == ByteSize(BitSize(declared))
  IN AfterReverse(dv, ctx.offset, ctx.offset + byteSize, e)

\* a slip: skip taken as an absolute offset
SkipAbsolute(p, heap, c) == Returns(Undefined, p.offset, {})

SeekHandler(p, heap, c) == Returns(Undefined, Resolve(p.offset, heap, c), {})

SkipHandler(p, heap, c) == Returns(Undefined, heap[c].offset + p.offset, {})

-----------------------------------------------------------------------------
(* The machine.                                                            *)

\* an activation of exec(dv, pat, ctxs[c]).  History: off0 is the offset it
\* started at, reads0 the bytes read before it started, and, for an object
\* pattern, keys, the names each field has stored so far, and vals, what each
\* field has returned so far
Frame(pat, c, off0, reads0) ==
  [pat |-> pat, ctx |-> c, pc |-> "call", i |-> 0, acc |-> <<>>,
   scope |-> 0, saved |-> 0, len |-> 0, off0 |-> off0, reads0 |-> reads0,
   keys |-> <<>>, vals |-> <<>>]

NoFrame ==
  [pat |-> NoPattern, ctx |-> 0, pc |-> "call", i |-> 0, acc |-> <<>>,
   scope |-> 0, saved |-> 0, len |-> 0, off0 |-> 0, reads0 |-> {}, keys |-> <<>>,
   vals |-> <<>>]

Top == stack[Len(stack)]

Running(kind) == status = "running" /\ stack # <<>> /\ Top.pat.k = kind

\* the step being taken, and where it starts from
Snapshot(op) ==
  [op |-> op, pc |-> Top.pc, frame |-> Top, ret |-> ret, reads |-> reads,
   offset |-> ctxs[Top.ctx].offset, depth |-> Len(stack), heap |-> ctxs]

\* the innermost activation returns value, leaving heap and the buffer as bytes
ReturnOver(op, value, heap, read, bytes) ==
  /\ stack' = Front(stack)
  /\ ctxs' = heap
  /\ ret' = value
  /\ reads' = reads \cup read
  /\ buf' = bytes
  /\ last' = Snapshot(op)
  /\ UNCHANGED <<pattern, option, endian, status, result, given, memo>>

\* the innermost activation returns value, leaving heap
Return(op, value, heap, read) == ReturnOver(op, value, heap, read, buf)

\* the innermost activation, now frame, calls exec(dv, pat, heap[c])
Call(op, frame, pat, c, heap) ==
  /\ stack' = Append([stack EXCEPT ![Len(stack)] = frame], Frame(pat, c, heap[c].offset, reads))
  /\ ctxs' = heap
  /\ ret' = NoValue
  /\ reads' = reads
  /\ last' = Snapshot(op)
  /\ UNCHANGED <<pattern, option, endian, buf, status, result, given, memo>>

\* the decodes kept so far, with the one of buffer that ended with outcome
Remember(m, buffer, outcome) ==
  IF m.on THEN [m EXCEPT !.runs = Append(@, [buf |-> buffer, result |-> outcome])] ELSE m

\* an exception unwinds every activation and leaves Binpat.exec
Throw(op, name) ==
  /\ stack' = <<>>
  /\ ret' = NoValue
  /\ status' = "error"
  /\ result' = [t |-> "error", name |-> name]
  /\ memo' = Remember(memo, buf, [t |-> "error", name |-> name])
  /\ last' = Snapshot(op)
  /\ UNCHANGED <<pattern, option, endian, buf, ctxs, reads, given>>

\* the heap once a leaf handler has run on heap[c]
Applied(out, heap, c) == [heap EXCEPT ![c].offset = out.offset]

\* a leaf handler ran on the context of the innermost activation
LeafOver(op, out, bytes) ==
  IF out.throws # "" THEN Throw(op, out.throws)
  ELSE ReturnOver(op, out.value, Applied(out, ctxs, Top.ctx), out.read, bytes)

\* a leaf handler that writes to no array ran
Leaf(op, out) == LeafOver(op, out, buf)

Typed ==
  /\ Running("typed")
  /\ Leaf("typed", TypedHandler(Top.pat, buf, ctxs[Top.ctx]))

BoolStep ==
  /\ Running("bool")
  /\ Leaf("bool", BoolHandler(Top.pat, buf, ctxs[Top.ctx]))

StringStep ==
  /\ Running("string")
  /\ Leaf("string", StringHandler(Top.pat, buf, ctxs, Top.ctx))

Bitfield ==
  /\ Running("bitfield")
  /\ LeafOver("bitfield", BitfieldHandler(Top.pat, buf, ctxs[Top.ctx]),
              BitfieldBuffer(Top.pat, buf, ctxs[Top.ctx]))

Seek ==
  /\ Running("seek")
  /\ Leaf("seek", SeekHandler(Top.pat, ctxs, Top.ctx))

Skip ==
  /\ Running("skip")
  /\ Leaf("skip", SkipHandler(Top.pat, ctxs, Top.ctx))

\* exec: return pattern
ExecLiteral ==
  /\ Running("literal")
  /\ Return("literal", Top.pat.value, ctxs, {})

\* exec: pattern.map((pat) => exec(dv, pat, parent))
ExecArray ==
  /\ Running("Array")
  /\ LET items == Top.pat.items
         acc == IF Top.pc = "call" THEN <<>> ELSE Append(Top.acc, ret)
         i == Len(acc) + 1
     IN IF i > Len(items)
        THEN Return("Array", [t |-> "Array", items |-> acc], ctxs, {})
        ELSE Call("Array", [Top EXCEPT !.pc = "wait", !.i = i, !.acc = acc],
                  items[i], Top.ctx, ctxs)

\* the UTF-16 code units of a string of code points
RECURSIVE CodeUnits(_)
CodeUnits(chars) ==
  IF chars = <<>> THEN <<>>
  ELSE (IF Head(chars) < 65536 THEN <<Head(chars)>>
        ELSE <<55296 + ((Head(chars) - 65536) \div 1024),
               56320 + ((Head(chars) - 65536) % 1024)>>) \o CodeUnits(Tail(chars))

\* the own enumerable properties `{...value}` copies
OwnEntries(value) ==
  CASE value.t = "object" -> value.entries
    [] value.t = "string" ->
         [i \in 1..Len(CodeUnits(value.chars)) |->
            [key |-> IndexKey(i - 1), value |-> String(<<CodeUnits(value.chars)[i]>>)]]
    [] value.t \in {"Array", "TypedArray"} ->
         [i \in 1..Len(value.items) |-> [key |-> IndexKey(i - 1), value |-> value.items[i]]]
    [] OTHER -> <<>>

\* the names the field `key` stores in data
StoredKeys(key, value) ==
  IF StartsWith(key, <<".", ".", ".">>) THEN ObjKeys(OwnEntries(value))
  ELSE IF StartsWith(key, <<"/", "/">>) THEN <<>>
  ELSE <<key>>

\* a slip: the omit marker is not recognised
StoreFieldNoOmit(data, key, value) ==
  IF StartsWith(key, <<".", ".", ".">>) THEN ObjAssign(data, OwnEntries(value))
  ELSE ObjSet(data, key, value)

\* a slip: the spread marker is not recognised
StoreFieldNoSpread(data, key, value) ==
  IF StartsWith(key, <<"/", "/">>) THEN data
  ELSE ObjSet(data, key, value)

\* a slip: { ...result, ...ctx.data }
StoreFieldFlipped(data, key, value) ==
  IF StartsWith(key, <<".", ".", ".">>) THEN ObjAssign(OwnEntries(value), data)
  ELSE IF StartsWith(key, <<"/", "/">>) THEN data
  ELSE ObjSet(data, key, value)

\* a slip: a name that is already in data keeps its value
StoreFieldKeepFirst(data, key, value) ==
  IF StartsWith(key, <<".", ".", ".">>) THEN ObjAssign(OwnEntries(value), data)
  ELSE IF StartsWith(key, <<"/", "/">>) \/ ObjHas(data, key) THEN data
  ELSE ObjSet(data, key, value)

\* exec: what the forEach callback does with the result of the field `key`
StoreField(data, key, value) ==
  IF StartsWith(key, <<".", ".", ".">>) THEN ObjAssign(data, OwnEntries(value))
  ELSE IF StartsWith(key, <<"/", "/">>) THEN data
  ELSE ObjSet(data, key, value)

\* a slip: { ...parent, parent }, the data of the parent is kept
ScopeInherits(heap, parent) ==
  Context(heap[parent].endian, parent, heap[parent].offset, heap[parent].data)

\* a slip: the new context is linked to the parent of the context received
ScopeDetached(heap, parent) ==
  Context(heap[parent].endian, heap[parent].parent, heap[parent].offset, <<>>)

\* exec: const ctx = { ...parent, parent, data: {} }
Scope(heap, parent) ==
  Context(heap[parent].endian, parent, heap[parent].offset, <<>>)

\* a slip: the offset of the scope is not given to the parent
WriteBackNone(heap, parent, scope) == heap

\* exec: parent.offset = ctx.offset
WriteBack(heap, parent, scope) == [heap EXCEPT ![parent].offset = heap[scope].offset]

\* exec: the object pattern
ExecObject ==
  /\ Running("object")
  /\ LET entries == Top.pat.entries
         parent == Top.ctx
         scope == IF Top.pc = "call" THEN Len(ctxs) + 1 ELSE Top.scope
         heap0 == IF Top.pc = "call"
                  THEN Append(ctxs, Scope(ctxs, parent))
                  ELSE [ctxs EXCEPT ![scope].data =
                          StoreField(@, entries[Top.i].key, ret)]
         i == IF Top.pc = "call" THEN 1 ELSE Top.i + 1
         keys == IF Top.pc = "call" THEN <<>>
                 ELSE Append(Top.keys, StoredKeys(entries[Top.i].key, ret))
         vals == IF Top.pc = "call" THEN <<>> ELSE Append(Top.vals, ret)
     IN IF i > Len(entries)
        THEN Return("object", Object(heap0[scope].data),
                    WriteBack(heap0, parent, scope), {})
        ELSE Call("object",
                  [Top EXCEPT !.pc = "wait", !.i = i, !.scope = scope, !.keys = keys,
                              !.vals = vals],
                  entries[i].value, scope, heap0)

\* (pattern[BINPAT_ARRAY] || Array).from({ length: len }) throws for a BigInt
\* array of undefined elements
FromThrows(pat, len) ==
  pat.k = "typed" /\ pat.ctor.family \in {"BigUint", "BigInt"} /\ len > 0

\* the array the handler of array() returns
ArrayOf(pat, items) ==
  IF pat.k = "typed"
  THEN [t |-> "TypedArray", ctor |-> pat.ctor, items |-> items]
  ELSE [t |-> "Array", items |-> items]

\* a slip: the size evaluated again for every element
ArrayLenAgain(frame, heap) == Resolve(frame.pat.size, heap, frame.ctx)

\* const len = typeof size === 'function' ? size(ctx) : size, once per call
ArrayLen(frame, heap) ==
  IF frame.pc = "call" THEN Resolve(frame.pat.size, heap, frame.ctx) ELSE frame.len

ArrayStep ==
  /\ Running("array")
  /\ LET pat == Top.pat.pattern
         len == ArrayLen(Top, ctxs)
         acc == IF Top.pc = "call" THEN <<>> ELSE Append(Top.acc, ret)
         i == Len(acc) + 1
     IN IF FromThrows(pat, len) THEN Throw("array", "TypeError")
        ELSE IF i > len THEN Return("array", ArrayOf(pat, acc), ctxs, {})
        ELSE Call("array", [Top EXCEPT !.pc = "wait", !.i = i, !.acc = acc, !.len = len],
                  pat, Top.ctx, ctxs)

\* a slip: the condition is not looked at
SelectedTruthy(p, heap, c) == p.truthy

\* condition(ctx) ? truthy : falsy
Selected(p, heap, c) ==
  IF Truthy(EvalFn(p.condition, heap, c)) THEN p.truthy ELSE p.falsy

Ternary ==
  /\ Running("ternary")
  /\ LET pat == Selected(Top.pat, ctxs, Top.ctx)
     IN IF Top.pc = "wait" THEN Return("ternary", ret, ctxs, {})
        ELSE IF pat.k = "undefined" THEN Return("ternary", Undefined, ctxs, {})
        ELSE Call("ternary", [Top EXCEPT !.pc = "wait"], pat, Top.ctx, ctxs)

Convert ==
  /\ Running("convert")
  /\ IF Top.pc = "wait" THEN Return("convert", ApplyFn(Top.pat.fn, ret), ctxs, {})
     ELSE Call("convert", [Top EXCEPT !.pc = "wait"], Top.pat.pattern, Top.ctx, ctxs)

\* a slip: the saved offset is not written back
PeekNoRestore(frame, heap) == heap[frame.ctx].offset

\* the offset peek leaves when exec has returned
PeekRestore(frame, heap) == frame.saved

Peek ==
  /\ Running("peek")
  /\ LET c == Top.ctx
     IN IF Top.pc = "wait"
        THEN Return("peek", ret, [ctxs EXCEPT ![c].offset = PeekRestore(Top, ctxs)], {})
        ELSE Call("peek", [Top EXCEPT !.pc = "wait", !.saved = ctxs[c].offset],
                  Top.pat.pattern, c,
                  [ctxs EXCEPT ![c].offset = Resolve(Top.pat.offset, ctxs, c)])

-----------------------------------------------------------------------------
(* The patterns, options and buffers the model decodes.                    *)

ByteVals == {0, 1, 255}

RECURSIVE SeqsUpTo(_, _)
SeqsUpTo(S, n) ==
  IF n = 0 THEN {<<>>}
  ELSE LET shorter == SeqsUpTo(S, n - 1)
       IN shorter \cup {Append(s, b) : s \in {x \in shorter : Len(x) = n - 1}, b \in S}

ShortBuffers == SeqsUpTo(ByteVals, MaxShortLen)

Widths == {2, 4, 6, 8, 9}

LongBuffers ==
  UNION {{[i \in 1..n |-> i],
          [i \in 1..n |-> IF i = n THEN 255 ELSE 0],
          [i \in 1..n |-> IF i = 1 THEN 128 ELSE 0],
          [i \in 1..n |-> IF i = 1 THEN 127 ELSE 255],
          [i \in 1..n |-> IF i = n THEN 128 ELSE 255],
          [i \in 1..n |-> IF i = 1 THEN 2 ELSE 16 * i],
          [i \in 1..n |-> IF i % 2 = 1 THEN 85 ELSE 204]} : n \in Widths}

Buffers == ShortBuffers \cup LongBuffers

LittleEndianArgs == {"undefined", "true", "false"}

Typeds(le) ==
  {u8, u16(le), u32(le), u64(le), i8, i16(le), i32(le), i64(le), f16(le), f32(le), f64(le)}

Primitives == (UNION {Typeds(le) : le \in LittleEndianArgs}) \cup {bool}

\* a property name without '/' or '.', kept as one element
K(name) == <<name>>

\* what random() returned, for the marker keys of the patterns below
R1 == <<"1", "f">>

R2 == <<"2", "e">>

\* Math.random().toString(16).slice(2): what a call of random() may return.
\* Nothing in it depends on the calls made before, so two calls may return
\* the same string
random == {R1, R2}

Options == {"undefined", "big", "little"}

With(patterns, options) ==
  {[pattern |-> p, option |-> o] : p \in patterns, o \in options}

\* where a seek or a peek goes
Targets ==
  {Lit(n) : n \in 0..MaxJump} \cup {DataOf(K("foo")), OffsetPlus(1)}

Pair == Structure(<<Field(K("a"), u8), Field(K("b"), u8)>>)

PeekSubs ==
  {u8, u16("undefined"), Pair, Sequence(<<u8, u8>>), array(u8, Lit(2)),
   seek(Lit(0)), skip(1), peek(Lit(0), u8)}

PeekIn(target, pat) ==
  Structure(<<Field(K("foo"), u8), Field(K("baz"), peek(target, pat)),
              Field(K("bar"), u8)>>)

PeekPatterns ==
  {PeekIn(t, q) : t \in Targets, q \in PeekSubs}
    \cup {peek(Lit(1), u8),
          Sequence(<<u8, peek(Lit(0), u16("true")), u8>>),
          array(Structure(<<Field(K("offset"), u8),
                            Field(K("data"), peek(DataOf(K("offset")), u8))>>), Lit(1))}

Movers ==
  {u8, u16("undefined"), bool, Pair}
    \cup {seek(t) : t \in Targets}
    \cup {skip(n) : n \in (-MaxJump)..MaxJump}

MoveIn(key, pat) ==
  Structure(<<Field(K("foo"), u8), Field(key, pat), Field(K("baz"), u8)>>)

MovePatterns ==
  {MoveIn(omit(R1), m) : m \in Movers}
    \cup {MoveIn(K("bar"), m) : m \in {u8, seek(Lit(1)), skip(1)}}
    \cup {Structure(<<Field(omit(R1), u8), Field(omit(R2), skip(1)), Field(K("baz"), u8)>>)}

Item == Structure(<<Field(K("id"), u16("undefined")), Field(K("enabled"), bool)>>)

Elements == Typeds("undefined") \cup {bool, Item, Sequence(<<u8>>)}

Counted(pat) ==
  Structure(<<Field(K("count"), u8), Field(K("items"), array(pat, DataOf(K("count"))))>>)

ArrayPatterns ==
  {array(p, Lit(n)) : p \in Elements, n \in 0..MaxCount}
    \cup {Counted(p) : p \in {u8, u16("true"), u64("undefined"), bool, Item}}
    \cup {Sequence(<<u8, array(u8, OffsetPlus(0)), u8>>)}

Inner == Structure(<<Field(K("b"), u8), Field(K("c"), u8)>>)

Numbered == Structure(<<Field(K("b"), u8), Field(K("1"), u8)>>)

Flagged ==
  Structure(<<Field(K("flag"), bool),
              Field(spread(R1), ternary(DataOf(K("flag")),
                                        Structure(<<Field(K("truthy"), u8)>>),
                                        Structure(<<Field(K("falsy"), u8)>>)))>>)

\* { a: u8(), [first]: p, [second]: q, b: u8() }, the keys in an object literal
Twice(first, second, p, q) ==
  Structure(<<Field(K("a"), u8), Field(first, p), Field(second, q), Field(K("b"), u8)>>)

\* Structures declared with two calls of omit() and with two calls of spread()
MarkedPatterns ==
  {Twice(omit(s), omit(t), u8, u8) : s, t \in random}
    \cup {Twice(spread(s), spread(t), Structure(<<Field(K("c"), u8)>>),
                 Structure(<<Field(K("d"), u8)>>)) : s, t \in random}

\* Structures with an array index name, and with names written more than once
NamePatterns ==
  {Numbered,
   Structure(<<Field(spread(R1), Pair), Field(K("b"), u16("undefined"))>>),
   Structure(<<Field(spread(R1), Pair), Field(spread(R2), Inner)>>),
   Structure(<<Field(K("b"), u16("undefined")), Field(omit(R1), u8), Field(spread(R1), Pair)>>),
   Structure(<<Field(spread(R1), Structure(<<Field(K("1"), u8)>>)), Field(K("1"), u8)>>)}

\* the pattern of the ternary test, decided by a flag, and ternaries without
\* falsy, decided by a flag and by a number
Chosen(truthy, falsy) ==
  Structure(<<Field(K("flag"), bool),
              Field(K("value"), ternary(DataOf(K("flag")), truthy, falsy)),
              Field(K("next"), u8)>>)

TernaryPatterns ==
  {Chosen(u8, i8), Chosen(u16("undefined"), NoPattern), Chosen(Pair, u8),
   Chosen(skip(1), seek(Lit(0))),
   Structure(<<Field(K("count"), u8),
               Field(K("value"), ternary(DataOf(K("count")), u8, NoPattern))>>)}

\* spread fields whose sub-pattern does not decode to an object
NonMappings ==
  {MoveIn(spread(R1), q) :
     q \in {u8, bool, Sequence(<<u8, u8>>), array(u8, Lit(2)), string(Lit(2))}}

SpreadPatterns ==
  NonMappings \cup
  {Flagged,
   MoveIn(spread(R1), Inner),
   Structure(<<Field(K("a"), u8), Field(spread(R1), Numbered)>>),
   Structure(<<Field(K("a"), u8), Field(spread(R1), Pair), Field(K("d"), u8)>>),
   Structure(<<Field(spread(R1), Pair), Field(omit(R1), u8), Field(spread(R2), Item)>>),
   Structure(<<Field(K("x"), u8),
               Field(spread(R2), Structure(<<Field(omit(R1), u8), Field(K("y"), u8)>>))>>)}

\* strings of a literal and of a computed size, alone and between fields
StringPatterns ==
  {string(Lit(n)) : n \in 0..MaxCount}
    \cup {Structure(<<Field(K("size"), u8), Field(K("text"), string(DataOf(K("size")))),
                      Field(K("next"), u8)>>),
          MoveIn(K("text"), string(Lit(1))),
          Structure(<<Field(omit(R1), skip(-1)), Field(K("text"), string(Lit(1)))>>)}

\* the layout of the documentation of bitfield
DocLayout ==
  <<Field(K("a"), Bits(3)), Field(K("b"), bitfield_u(3)), Field(omit(R1), Bits(4)),
    Field(K("c"), bitfield_i(5)), Field(K("d"), bitfield_bool)>>

BitfieldOptions ==
  {BitfieldOption(e, first) : e \in {"undefined", "big", "little"},
                              first \in {"undefined", "MSb", "LSb"}}

NoOption == BitfieldOption("undefined", "undefined")

FieldWidths == {1, 2, 7, 8, 9, 16, 31, 32}

BitfieldPatterns ==
  {bitfield(DocLayout, o) : o \in BitfieldOptions}
    \cup {bitfield(<<Field(K("x"), bitfield_i(w))>>, NoOption) : w \in FieldWidths}
    \cup {bitfield(<<Field(K("x"), Bits(w)), Field(K("y"), bitfield_bool)>>, NoOption) :
            w \in FieldWidths}
    \cup {bitfield(<<Field(K("x"), bitfield_i(3)), Field(K("y"), bitfield_i(w))>>, o) :
            w \in {4, 5, 6}, o \in {NoOption, BitfieldOption("little", "MSb")}}
    \cup {MoveIn(K("bits"), bitfield(DocLayout, o)) :
            o \in {NoOption, BitfieldOption("little", "undefined")}}

Str(chars) == [t |-> "string", chars |-> chars]

\* (value) => ['', 'ico', 'cur'][value]
IcoType == [table |-> <<Str(<<>>), Str(<<"i", "c", "o">>), Str(<<"c", "u", "r">>)>>]

DocPatterns ==
  {Structure(<<Field(K("rawNumber"), Literal(Number(123))),
               Field(K("rawArray"), Sequence(<<u8, u8>>)),
               Field(K("count"), u8),
               Field(K("rawObject"),
                     Structure(<<Field(K("items"),
                                       array(u8, ParentDataOf(K("count"))))>>))>>),
   Structure(<<Field(K("type"), convert(u8, IcoType))>>)}

Binpats ==
  With(Primitives, Options)
    \cup With({u16(le) : le \in LittleEndianArgs}, {"LE"})
    \cup With(PeekPatterns \cup MovePatterns \cup ArrayPatterns \cup SpreadPatterns
                \cup DocPatterns \cup StringPatterns \cup TernaryPatterns
                \cup MarkedPatterns \cup NamePatterns, {"undefined"})
    \cup With(BitfieldPatterns, {"undefined", "little"})
    \cup With({Counted(u16("undefined")), array(Item, Lit(1))}, {"little"})

\* the buffers one instance decodes in turn
AgainBuffers == {<<1, 0, 255>>, [i \in 1..8 |-> IF i = 1 THEN 2 ELSE 16 * i]}

-----------------------------------------------------------------------------
(* Binpat.                                                                 *)

\* constructor: option?.endian === 'little' ? 'little' : 'big'
BinpatEndian(opt) == IF opt = "little" THEN "little" ELSE "big"

Init ==
  /\ \E b \in Binpats :
       /\ pattern = b.pattern
       /\ option = b.option
       /\ endian = BinpatEndian(b.option)
  /\ buf = <<>>
  /\ status = "idle"
  /\ ctxs = <<>>
  /\ stack = <<>>
  /\ ret = NoValue
  /\ result = NoValue
  /\ reads = {}
  /\ last = [op |-> "new", pc |-> "", frame |-> NoFrame, ret |-> NoValue,
             reads |-> {}, offset |-> 0, depth |-> 0, heap |-> <<>>]
  /\ given = <<>>
  /\ memo = [on |-> FALSE, runs |-> <<>>]

\* a slip: the context of the previous decode is used again
RootKept(e, heap) == IF heap = <<>> THEN Context(e, 0, 0, <<>>) ELSE heap[1]

\* { endian: this.endian, offset: 0, data: {} }; heap is what the decode before left
Root(e, heap) == Context(e, 0, 0, <<>>)

\* Binpat.exec(buffer) calls exec on a new root context.  An instance decodes
\* again after a decode has ended when its decodes are kept: a further decode
\* starts from the state of a first decode of the same buffer but for memo
BinpatExec ==
  /\ status # "running"
  /\ status # "idle" => memo.on /\ Len(memo.runs) < MaxRuns
  /\ \E buffer \in (IF memo.on THEN AgainBuffers ELSE Buffers) :
       /\ buf' = buffer
       /\ given' = buffer
       /\ status' = "running"
       /\ ctxs' = <<Root(endian, ctxs)>>
       /\ stack' = <<Frame(pattern, 1, Root(endian, ctxs).offset, {})>>
       /\ ret' = NoValue
       /\ result' = NoValue
       /\ reads' = {}
       /\ last' = [op |-> "exec", pc |-> "", frame |-> NoFrame, ret |-> NoValue,
                   reads |-> {}, offset |-> 0, depth |-> 0, heap |-> <<>>]
  /\ UNCHANGED <<pattern, option, endian, memo>>

\* Binpat.exec returns what exec returned
BinpatReturn ==
  /\ status = "running"
  /\ stack = <<>>
  /\ status' = "done"
  /\ result' = ret
  /\ memo' = Remember(memo, buf, ret)
  /\ ret' = NoValue
  /\ last' = [op |-> "return", pc |-> "", frame |-> NoFrame, ret |-> ret,
              reads |-> reads, offset |-> ctxs[1].offset, depth |-> 0, heap |-> ctxs]
  /\ UNCHANGED <<pattern, option, endian, buf, ctxs, stack, reads, given>>

Next ==
  \/ BinpatExec
  \/ BinpatReturn
  \/ Typed
  \/ BoolStep
  \/ StringStep
  \/ Bitfield
  \/ Seek
  \/ Skip
  \/ ExecLiteral
  \/ ExecArray
  \/ ExecObject
  \/ ArrayStep
  \/ Ternary
  \/ Convert
  \/ Peek

Spec == Init /\ [][Next]_vars

\* one instance decodes buffers in turn, and what each decode gave is kept
InitAgain ==
  /\ \E b \in Binpats :
       /\ pattern = b.pattern
       /\ option = b.option
       /\ endian = BinpatEndian(b.option)
  /\ buf = <<>>
  /\ status = "idle"
  /\ ctxs = <<>>
  /\ stack = <<>>
  /\ ret = NoValue
  /\ result = NoValue
  /\ reads = {}
  /\ last = [op |-> "new", pc |-> "", frame |-> NoFrame, ret |-> NoValue,
             reads |-> {}, offset |-> 0, depth |-> 0, heap |-> <<>>]
  /\ given = <<>>
  /\ memo = [on |-> TRUE, runs |-> <<>>]

SpecAgain == InitAgain /\ [][Next]_vars

-----------------------------------------------------------------------------
(* Properties.                                                             *)

\* the context the step just taken ran on
LastCtx == ctxs[last.frame.ctx]

\* a handler just returned to its caller (it did not throw)
Returned(op) == last.op = op /\ status = "running" /\ Len(stack) < last.depth

\* the byte width the documentation gives each primitive
DocWidth(p) ==
  IF p.k = "bool" THEN 1
  ELSE CASE p.ctor.bits = 8 -> 1
         [] p.ctor.bits = 16 -> 2
         [] p.ctor.bits = 32 -> 4
         [] p.ctor.bits = 64 -> 8

\* C2: a numeric primitive or bool executed at offset o with at least w bytes
\* remaining completes, reads exactly the bytes [o, o + w) and leaves the
\* offset at o + w, whatever the byte order
C2_PrimitiveAdvance ==
  last.op \in {"typed", "bool"} =>
    LET o == last.offset
        w == DocWidth(last.frame.pat)
    IN /\ (o >= 0 /\ Len(buf) - o >= w) => status = "running"
       /\ status = "running" =>
            /\ LastCtx.offset = o + w
            /\ reads = last.reads \cup {x \in 0..(Len(buf) - 1) : o <= x /\ x < o + w}
            /\ ret.t # "none"

C2_Witness ==
  /\ Returned("typed")
  /\ last.frame.pat.ctor.bits = 64
  /\ last.frame.pat.littleEndian = "true"
  /\ endian = "big"
  /\ LastCtx.offset = 8

\* a handler just called exec on a sub-pattern
Called(op) == last.op = op /\ status = "running" /\ Len(stack) > last.depth

\* the byte of the buffer at offset off, as u8 decodes it
ByteAt(off) == Number(buf[off + 1])

\* the offset a target denotes in the context the handler started in
TargetOf(x) ==
  CASE x.f = "literal" -> x.n
    [] x.f = "data" -> IntOf(ObjGet(last.heap[last.frame.ctx].data, x.key))
    [] x.f = "offset+" -> last.offset + x.n

\* C1: peek(target, p) executes p on the same context starting at the target
\* offset, and when p completes peek returns what p returned and leaves the
\* context offset where it was before peek was executed
C1_PeekRestoresOffset ==
  /\ (Called("peek") /\ last.pc = "call") =>
       /\ Top.pat = last.frame.pat.pattern
       /\ Top.ctx = last.frame.ctx
       /\ ctxs[Top.ctx].offset = TargetOf(last.frame.pat.offset)
       /\ Top.off0 = TargetOf(last.frame.pat.offset)
  /\ Returned("peek") =>
       /\ LastCtx.offset = last.frame.off0
       /\ ret = last.ret
       /\ reads = last.reads
  /\ (status = "done" /\ \E t \in Targets : pattern = PeekIn(t, u8)) =>
       LET t == pattern.entries[2].value.offset
           target == CASE t.f = "literal" -> t.n
                       [] t.f = "data" -> buf[1]
                       [] t.f = "offset+" -> 1 + t.n
       IN result = Object(<<[key |-> K("foo"), value |-> ByteAt(0)],
                            [key |-> K("baz"), value |-> ByteAt(target)],
                            [key |-> K("bar"), value |-> ByteAt(1)]>>)

\* a peek of a Structure returned after the Structure had moved the offset
C1_Witness ==
  /\ Returned("peek")
  /\ last.frame.pat.pattern = Pair
  /\ last.offset # last.frame.off0
  /\ last.frame.off0 = 1
  /\ ret = last.ret

\* C3: skip(n) executed at offset o leaves what seek(o + n) and
\* seek(ctx => ctx.offset + n) leave: the offset o + n, no byte read and no
\* value produced
C3_SkipIsSeek ==
  /\ Running("skip") =>
       LET c == Top.ctx
           o == ctxs[c].offset
           n == Top.pat.offset
           skipped == SkipHandler(Top.pat, ctxs, c)
           sought == SeekHandler(seek(Lit(o + n)), ctxs, c)
           soughtFn == SeekHandler(seek(OffsetPlus(n)), ctxs, c)
       IN /\ skipped = sought
          /\ skipped = soughtFn
          /\ Applied(skipped, ctxs, c) = Applied(sought, ctxs, c)
          /\ skipped.offset = o + n
          /\ skipped.throws = ""
  /\ last.op = "skip" =>
       /\ status = "running"
       /\ LastCtx.offset = last.offset + last.frame.pat.offset
       /\ reads = last.reads
       /\ ret = Undefined
       /\ \A c \in 1..Len(ctxs) : ctxs[c].data = last.heap[c].data

\* a skip backwards returned
C3_Witness ==
  /\ Returned("skip")
  /\ last.frame.pat.offset < 0
  /\ last.offset = 1
  /\ LastCtx.offset = 0

\* the byte order a typed primitive is documented to read with
LittleFor(p) ==
  IF p.littleEndian = "undefined" THEN option = "little" ELSE p.littleEndian = "true"

\* the element patterns whose width is known from the documentation
KnownElement(p) == p.k \in {"typed", "bool"} \/ p = Item \/ p = Sequence(<<u8>>)

ElementWidth(p) ==
  IF p.k \in {"typed", "bool"} THEN DocWidth(p)
  ELSE IF p = Item THEN 3
  ELSE 1

\* what such an element decodes at offset off
ElementAt(p, off) ==
  IF p.k = "typed" THEN DataViewGet(p.ctor, buf, off, LittleFor(p))
  ELSE IF p.k = "bool" THEN Bool(buf[off + 1] # 0)
  ELSE IF p = Item
  THEN Object(<<[key |-> K("id"),
                 value |-> DataViewGet(Ctor("Uint", 16), buf, off, option = "little")],
                [key |-> K("enabled"), value |-> Bool(buf[off + 3] # 0)]>>)
  ELSE [t |-> "Array", items |-> <<ByteAt(off)>>]

\* the size of the array activation f, from the context it was called on
CountOf(f) ==
  LET x == f.pat.size
      own == last.heap[f.ctx]
  IN CASE x.f = "literal" -> x.n
       [] x.f = "data" -> IntOf(ObjGet(own.data, x.key))
       [] x.f = "parent.data" -> IntOf(ObjGet(last.heap[own.parent].data, x.key))
       [] x.f = "offset+" -> f.off0 + x.n

\* C4: array(p, size) takes its size n once, from the context it is called on,
\* and executes p n times one after the other on that context: element k starts
\* at the offset where element k-1 ended, a completed array has exactly n
\* elements in order, the offset has advanced by n*w for elements of width w,
\* and no byte beyond the n-th element has been read
C4_ArrayCount ==
  /\ Called("array") =>
       LET a == stack[last.depth]
       IN /\ Top.pat = last.frame.pat.pattern
          /\ Top.ctx = last.frame.ctx
          /\ Top.off0 = last.offset
          /\ a.i = last.frame.i + 1
          /\ a.i <= CountOf(last.frame)
          /\ ctxs = last.heap
          /\ last.pc = "wait" => a.acc = Append(last.frame.acc, last.ret)
  /\ Returned("array") =>
       LET f == last.frame
           p == f.pat.pattern
           n == CountOf(f)
           w == ElementWidth(p)
       IN /\ Len(ret.items) = n
          /\ f.i = n
          /\ ctxs = last.heap
          /\ reads = last.reads
          /\ last.pc = "wait" => ret.items = Append(f.acc, last.ret)
          /\ KnownElement(p) =>
               /\ LastCtx.offset = f.off0 + n * w
               /\ reads = f.reads0 \cup {x \in 0..(Len(buf) - 1) :
                                           f.off0 <= x /\ x < f.off0 + n * w}
               /\ \A k \in 1..n : ret.items[k] = ElementAt(p, f.off0 + (k - 1) * w)

\* an array sized by a sibling field returned two Structures, with bytes left
C4_Witness ==
  /\ Returned("array")
  /\ pattern = Counted(Item)
  /\ Len(ret.items) = 2
  /\ LastCtx.offset = 7
  /\ Len(buf) > 7

\* C5: array(p, n) of a fixed-width numeric primitive p, with enough bytes for
\* n elements, completes and returns a packed array of p's element type with
\* the n values read in order; any other element pattern gives a generic array
C5_PackedArrays ==
  /\ last.op = "array" =>
       LET f == last.frame
           p == f.pat.pattern
           n == CountOf(f)
       IN (p.k = "typed" /\ n >= 0 /\ f.off0 + n * DocWidth(p) <= Len(buf))
            => status = "running"
  /\ Returned("array") =>
       LET f == last.frame
           p == f.pat.pattern
       IN IF p.k = "typed"
          THEN /\ ret.t = "TypedArray"
               /\ ret.ctor = p.ctor
               /\ \A k \in 1..Len(ret.items) :
                    ret.items[k] = ElementAt(p, f.off0 + (k - 1) * DocWidth(p))
          ELSE ret.t = "Array"

IsOmit(key) == StartsWith(key, <<"/", "/">>)

IsSpread(key) == StartsWith(key, <<".", ".", ".">>)

\* the Structure activation just resumed with the result of its field of name key
Stored(key) == last.op = "object" /\ last.pc = "wait" /\ status = "running"
                 /\ key = last.frame.pat.entries[last.frame.i].key

\* the offset at which baz is decoded in MoveIn(key, m), after foo and m
AfterMover(m) ==
  CASE m.k \in {"typed", "bool"} -> 1 + DocWidth(m)
    [] m.k = "object" -> 3
    [] m.k = "skip" -> 1 + m.offset
    [] m.k = "seek" ->
         CASE m.offset.f = "literal" -> m.offset.n
           [] m.offset.f = "data" -> buf[1]
           [] m.offset.f = "offset+" -> 1 + m.offset.n

\* C6: a field under an omit marker is executed in its place and moves the
\* offset as its sub-pattern does, its key and value are never in the data of
\* the Structure, and the next field decodes from the offset it left
C6_OmitFields ==
  /\ \A c \in 1..Len(ctxs) : \A i \in 1..Len(ctxs[c].data) : ~IsOmit(ctxs[c].data[i].key)
  /\ \A key \in {omit(R1), omit(R2)} : Stored(key) =>
       LET scope == last.frame.scope
       IN /\ ctxs[scope].data = last.heap[scope].data
          /\ ctxs[scope].offset = last.heap[scope].offset
          /\ Called("object") =>
               /\ Top.off0 = last.heap[scope].offset
               /\ Top.pat = last.frame.pat.entries[last.frame.i + 1].value
          /\ Returned("object") =>
               /\ ret = Object(last.heap[scope].data)
               /\ LastCtx.offset = last.heap[scope].offset
  /\ (status = "done" /\ \E m \in Movers : pattern = MoveIn(omit(R1), m)) =>
       LET next == AfterMover(pattern.entries[2].value)
       IN /\ result = Object(<<[key |-> K("foo"), value |-> ByteAt(0)],
                               [key |-> K("baz"), value |-> ByteAt(next)]>>)
          /\ ctxs[1].offset = next + 1

\* an omitted u16 was decoded between two fields
C6_Witness ==
  /\ status = "done"
  /\ pattern = MoveIn(omit(R1), u16("undefined"))
  /\ ObjKeys(result.entries) = <<K("foo"), K("baz")>>
  /\ reads = {0, 1, 2, 3}

\* C7: a field under a spread marker whose sub-pattern decodes to a mapping M
\* puts every entry of M in the data of the enclosing Structure, keeps what the
\* data held under other names, stores nothing under the marker and leaves the
\* offset where the sub-pattern left it; a ternary of two Structures
\* contributes the keys of the branch selected
C7_SpreadFields ==
  /\ \A c \in 1..Len(ctxs) : \A i \in 1..Len(ctxs[c].data) : ~IsSpread(ctxs[c].data[i].key)
  /\ \A key \in {spread(R1), spread(R2)} : (Stored(key) /\ last.ret.t = "object") =>
       LET scope == last.frame.scope
           before == last.heap[scope].data
           after == ctxs[scope].data
           M == last.ret.entries
       IN /\ \A i \in 1..Len(M) :
               ObjHas(after, M[i].key) /\ ObjGet(after, M[i].key) = M[i].value
          /\ \A i \in 1..Len(before) :
               /\ ObjHas(after, before[i].key)
               /\ ~ObjHas(M, before[i].key) => ObjGet(after, before[i].key) = before[i].value
          /\ \A i \in 1..Len(after) : ObjHas(M, after[i].key) \/ ObjHas(before, after[i].key)
          /\ ctxs[scope].offset = last.heap[scope].offset
  /\ (status = "done" /\ pattern = Flagged) =>
       result = Object(<<[key |-> K("flag"), value |-> Bool(buf[1] # 0)],
                         [key |-> IF buf[1] # 0 THEN K("truthy") ELSE K("falsy"),
                          value |-> ByteAt(1)]>>)
  /\ (status = "done" /\ pattern = MoveIn(spread(R1), Inner)) =>
       /\ result = Object(<<[key |-> K("foo"), value |-> ByteAt(0)],
                            [key |-> K("b"), value |-> ByteAt(1)],
                            [key |-> K("c"), value |-> ByteAt(2)],
                            [key |-> K("baz"), value |-> ByteAt(3)]>>)
       /\ ctxs[1].offset = 4

\* the falsy branch of the spread ternary was merged
C7_Witness ==
  /\ Stored(spread(R1))
  /\ pattern = Flagged
  /\ ObjKeys(ctxs[last.frame.scope].data) = <<K("flag"), K("falsy")>>

RECURSIVE Flatten(_)
Flatten(lists) == IF lists = <<>> THEN <<>> ELSE Head(lists) \o Flatten(Tail(lists))

\* names without the later occurrences of a name that occurs before
RECURSIVE KeepFirst(_)
KeepFirst(names) ==
  IF names = <<>> THEN <<>>
  ELSE LET front == KeepFirst(Front(names))
       IN IF \E i \in 1..Len(front) : front[i] = Last(names) THEN front
          ELSE Append(front, Last(names))

\* the canonical array index names among names, ascending
RECURSIVE Ascending(_)
Ascending(names) ==
  IF names = <<>> THEN <<>>
  ELSE LET least == CHOOSE a \in 1..Len(names) :
                      \A b \in 1..Len(names) : IndexValue(names[a]) <= IndexValue(names[b])
       IN <<names[least]>>
            \o Ascending(SubSeq(names, 1, least - 1) \o SubSeq(names, least + 1, Len(names)))

IsName(key) == ~IsIndex(key)

\* names with the canonical array index names moved to the front, ascending
IndexFirst(names) == Ascending(SelectSeq(names, IsIndex)) \o SelectSeq(names, IsName)

\* what the fields of the Structure that just returned contributed, in
\* declaration order: a named field its key, an omitted field nothing, a
\* spread field the keys of its sub-result in the sub-result's order; a name
\* contributed twice keeps its first place
Contributed ==
  LET f == last.frame
      fields == f.pat.entries
      recorded == IF last.pc = "call" THEN <<>>
                  ELSE Append(f.keys, StoredKeys(fields[f.i].key, last.ret))
  IN KeepFirst(Flatten([j \in 1..Len(fields) |->
                          IF IsOmit(fields[j].key) THEN <<>>
                          ELSE IF IsSpread(fields[j].key) THEN recorded[j]
                          ELSE <<fields[j].key>>]))

\* what a spread field is recorded to contribute is the keys of its sub-result
SpreadRecorded ==
  \A key \in {spread(R1), spread(R2)} :
    (Stored(key) /\ last.ret.t = "object" /\ Called("object")) =>
      Last(stack[last.depth].keys) = ObjKeys(last.ret.entries)

C9_EffectiveByteOrder ==
  /\ endian = IF option = "little" THEN "little" ELSE "big"
  /\ \A c \in 1..Len(ctxs) : ctxs[c].endian = endian
  /\ Returned("typed") =>
       ret = DataViewGet(last.frame.pat.ctor, buf, last.offset, LittleFor(last.frame.pat))
  /\ (status = "done" /\ buf = <<1, 2>>) =>
       /\ pattern = u16("true") => result = Number(513)
       /\ pattern = u16("false") => result = Number(258)
       /\ pattern = u16("undefined") =>
            result = IF option = "little" THEN Number(513) ELSE Number(258)

\* u16(false) read big-endian under a global 'little'
C9_Witness ==
  /\ status = "done"
  /\ pattern = u16("false")
  /\ option = "little"
  /\ buf = <<1, 2>>
  /\ result = Number(258)

\* digits with zeros in front, w digits in all
Padded(digits, w) == [i \in 1..w |-> IF i <= w - Len(digits) THEN 0 ELSE digits[i - (w - Len(digits))]]

\* the sum of two numbers of as many digits, with one digit more
RECURSIVE AddDigits(_, _)
AddDigits(a, b) ==
  IF a = <<>> THEN <<0>>
  ELSE LET rest == AddDigits(Tail(a), Tail(b))
           sum == a[1] + b[1] + rest[1]
       IN <<sum \div 256, sum % 256>> \o Tail(rest)

\* C10: an integer primitive of width w decoding a buffer of exactly w bytes
\* yields the integer whose most significant byte is the first byte when
\* big-endian and the last byte when little-endian: that value V, in
\* [0, 2^(8w)), for the unsigned kinds, and for the signed kinds V when
\* V < 2^(8w-1) and V - 2^(8w) otherwise, in [-2^(8w-1), 2^(8w-1))
C10_IntegerValues ==
  /\ (status = "done" /\ pattern.k = "typed" /\ pattern.ctor.family # "Float"
        /\ Len(buf) = DocWidth(pattern)) =>
       LET w == DocWidth(pattern)
           bytes == [i \in 1..w |-> IF LittleFor(pattern) THEN buf[w + 1 - i] ELSE buf[i]]
           signed == pattern.ctor.family \in {"Int", "BigInt"}
           mag == Padded(result.mag, w)
           V == IF w = 1 THEN bytes[1] ELSE 256 * bytes[1] + bytes[2]
       IN /\ result.t = IF w = 8 THEN "bigint" ELSE "number"
          /\ Len(result.mag) <= w
          /\ result.mag # <<>> => result.mag[1] # 0
          /\ IF signed /\ bytes[1] >= 128
             THEN /\ result.neg
                  /\ AddDigits(mag, bytes) = <<1>> \o [i \in 1..w |-> 0]
                  /\ mag[1] < 128 \/ mag = <<128>> \o [i \in 1..(w - 1) |-> 0]
             ELSE /\ ~result.neg
                  /\ mag = bytes
          /\ w <= 2 =>
               IntOf(result) = IF signed /\ bytes[1] >= 128
                               THEN (IF w = 1 THEN V - 256 ELSE V - 65536)
                               ELSE V
  /\ (status = "done" /\ buf = <<1, 2>> /\ option # "little") =>
       /\ pattern = u16("undefined") => IntOf(result) = 258
       /\ pattern = u16("true") => IntOf(result) = 513
  /\ (status = "done" /\ buf = <<0, 255>> /\ pattern = i16("true")) => IntOf(result) = -256

\* the smallest i64 was decoded big-endian
C10_Witness ==
  /\ status = "done"
  /\ pattern = i64("false")
  /\ buf = <<128, 0, 0, 0, 0, 0, 0, 0>>
  /\ result = [t |-> "bigint", neg |-> TRUE, mag |-> <<128, 0, 0, 0, 0, 0, 0, 0>>]

RECURSIVE Pow2(_)
Pow2(n) == IF n = 0 THEN 1 ELSE 2 * Pow2(n - 1)

\* the byte order and the bit numbering a bitfield is documented to use
EndianFor(p) ==
  IF p.option.endian # "undefined" THEN p.option.endian
  ELSE IF option = "little" THEN "little" ELSE "big"

FirstFor(p) ==
  IF p.option.first # "undefined" THEN p.option.first
  ELSE IF EndianFor(p) = "big" THEN "MSb" ELSE "LSb"

\* the sum of the declared widths of the first n fields of a layout
RECURSIVE WidthsBefore(_, _)
WidthsBefore(field, n) ==
  IF n = 0 THEN 0 ELSE WidthsBefore(field, n - 1) + field[n].value.size

DeclaredBits(p) == WidthsBefore(p.field, Len(p.field))

DeclaredBytes(p) == (DeclaredBits(p) + 7) \div 8

\* the names a bitfield declares, without the omitted ones
DeclaredNames(p) == SelectSeq(ObjKeys(p.field), LAMBDA key : ~IsOmit(key))

\* bit k of the buffer, counting from the most significant bit of byte 0
BitAt(k) == (buf[(k \div 8) + 1] \div Pow2(7 - (k % 8))) % 2

\* the unsigned value of the w <= 31 bits that start at bit k, first bit most
\* significant
RECURSIVE RawBits(_, _)
RawBits(k, w) == IF w = 0 THEN 0 ELSE 2 * RawBits(k, w - 1) + BitAt(k + w - 1)

\* the value a field of the given type and width has for the raw value raw;
\* a signed value is stated for widths up to 30 only
FieldValue(type, w, raw) ==
  CASE type = "bool" -> Bool(raw # 0)
    [] type = "i" -> IF raw < Pow2(w - 1) THEN Number(raw) ELSE Number(raw - Pow2(w))
    [] OTHER -> Number(raw)

\* the bitfield that just returned had all its bytes in the buffer
BitfieldRead ==
  /\ Returned("bitfield")
  /\ last.offset >= 0
  /\ last.offset + DeclaredBytes(last.frame.pat) <= Len(buf)

\* C11: big-endian and MSb-first, the i-th declared field of a bitfield has
\* the width_i bits of the span that follow the bits of the fields declared
\* before it, the most significant bit of the first byte being the first bit;
\* omitted fields take their bits and are not in the result, and the trailing
\* padding takes the last bits
C11_BitString ==
  /\ (BitfieldRead /\ EndianFor(last.frame.pat) = "big" /\ FirstFor(last.frame.pat) = "MSb") =>
       LET p == last.frame.pat
       IN /\ ObjKeys(ret.entries) = DeclaredNames(p)
          /\ \A i \in 1..Len(p.field) :
               LET def == p.field[i].value
                   start == 8 * last.offset + WidthsBefore(p.field, i - 1)
               IN (~IsOmit(p.field[i].key) /\ def.size <= 30) =>
                    ObjGet(ret.entries, p.field[i].key)
                      = FieldValue(def.type, def.size, RawBits(start, def.size))
  /\ (status = "done" /\ pattern = bitfield(DocLayout, NoOption) /\ option = "undefined"
        /\ buf = <<85, 204>>) =>
       result = Object(<<[key |-> K("a"), value |-> Number(2)],
                         [key |-> K("b"), value |-> Number(5)],
                         [key |-> K("c"), value |-> Number(6)],
                         [key |-> K("d"), value |-> Bool(FALSE)]>>)

\* the layout of the documentation decoded the bytes of the documentation
C11_Witness ==
  /\ status = "done"
  /\ pattern = bitfield(DocLayout, NoOption)
  /\ option = "undefined"
  /\ buf = <<85, 204>>
  /\ ObjGet(result.entries, K("c")) = Number(6)

\* the two's-complement or unsigned value of the w bits that start at bit k
\* (a multiple of 8 when w = 32, where the value is what i32 or u32 reads)
BitsValue(type, w, k) ==
  IF w = 32
  THEN DataViewGet(Ctor(IF type = "i" THEN "Int" ELSE "Uint", 32), buf, k \div 8, FALSE)
  ELSE IF w = 31 /\ type = "i"
  THEN Number(IF RawBits(k, w) < Pow2(30) THEN RawBits(k, w)
              ELSE RawBits(k, w) - Pow2(30) - Pow2(30))
  ELSE FieldValue(type, w, RawBits(k, w))

\* C12: a signed field of any width w >= 1 whose bits have the unsigned value
\* v yields v when v < 2^(w-1) and v - 2^w otherwise; an unsigned field yields
\* v and a boolean field v # 0
C12_SignedFields ==
  (BitfieldRead /\ EndianFor(last.frame.pat) = "big" /\ FirstFor(last.frame.pat) = "MSb") =>
    LET p == last.frame.pat
    IN \A i \in 1..Len(p.field) :
         LET def == p.field[i].value
             start == 8 * last.offset + WidthsBefore(p.field, i - 1)
         IN ~IsOmit(p.field[i].key) =>
              ObjGet(ret.entries, p.field[i].key) = BitsValue(def.type, def.size, start)

\* bit k of the span of the bitfield p that started at offset o, the bytes of
\* the span taken first to last when e is big and last to first when little,
\* each byte most significant bit first
SpanBit(p, o, e, k) ==
  LET byte == IF e = "big" THEN o + (k \div 8) ELSE o + DeclaredBytes(p) - 1 - (k \div 8)
  IN (buf[byte + 1] \div Pow2(7 - (k % 8))) % 2

RECURSIVE SpanBits(_, _, _, _, _)
SpanBits(p, o, e, k, w) ==
  IF w = 0 THEN 0 ELSE 2 * SpanBits(p, o, e, k, w - 1) + SpanBit(p, o, e, k + w - 1)

\* where the bits of the i-th declared field start: after the fields declared
\* before it when MSb-first, and when LSb-first after the padding and the
\* fields declared after it
FieldStart(p, i, first) ==
  IF first = "MSb" THEN WidthsBefore(p.field, i - 1)
  ELSE 8 * DeclaredBytes(p) - WidthsBefore(p.field, i)

\* C13: a bitfield decodes with its own endian option when it has one and with
\* the global endianness otherwise, and with its own first option when it has
\* one and otherwise MSb-first when that byte order is big and LSb-first when
\* it is little
C13_BitfieldOptions ==
  /\ BitfieldRead =>
       LET p == last.frame.pat
           e == EndianFor(p)
           first == FirstFor(p)
       IN /\ ObjKeys(ret.entries) = DeclaredNames(p)
          /\ \A i \in 1..Len(p.field) :
               LET def == p.field[i].value
               IN (~IsOmit(p.field[i].key) /\ def.size <= 30) =>
                    ObjGet(ret.entries, p.field[i].key)
                      = FieldValue(def.type, def.size,
                                   SpanBits(p, last.offset, e, FieldStart(p, i, first), def.size))
  /\ (status = "done" /\ buf = <<85, 204>> /\ option = "undefined"
        /\ pattern = bitfield(DocLayout, BitfieldOption("big", "LSb"))) =>
       result = Object(<<[key |-> K("a"), value |-> Number(4)],
                         [key |-> K("b"), value |-> Number(1)],
                         [key |-> K("c"), value |-> Number(-11)],
                         [key |-> K("d"), value |-> Bool(FALSE)]>>)

\* a bitfield with endian 'little' and no first option decoded LSb-first under
\* a global 'big'
C13_Witness ==
  /\ status = "done"
  /\ buf = <<85, 204>>
  /\ option = "undefined"
  /\ pattern = bitfield(DocLayout, BitfieldOption("little", "undefined"))
  /\ result = Object(<<[key |-> K("a"), value |-> Number(5)],
                       [key |-> K("b"), value |-> Number(2)],
                       [key |-> K("c"), value |-> Number(-13)],
                       [key |-> K("d"), value |-> Bool(TRUE)]>>)

\* the least number of bytes that hold n bits
BytesFor(n) == CHOOSE b \in 0..n : 8 * b >= n /\ 8 * (b - 1) < n

\* C14: a bitfield whose declared widths sum to S bits advances the offset by
\* ceil(S/8) bytes whatever its byte order and bit numbering; a padding field
\* of 8*ceil(S/8) - S bits is added under an omit key only when that number is
\* not zero, and the result has the declared names only
C14_BitfieldAdvance ==
  /\ Running("bitfield") =>
       LET p == Top.pat
           S == DeclaredBits(p)
           declared == [i \in 1..Len(p.field) |->
                          [key |-> p.field[i].key, value |-> Definition(p.field[i].value)]]
           padding == 8 * BytesFor(S) - S
           kvs == WithPadding(declared, ByteSize(BitSize(declared)) * 8 - BitSize(declared))
       IN /\ BitSize(declared) = S
          /\ IF padding = 0 THEN kvs = declared
             ELSE /\ Len(kvs) = Len(declared) + 1
                  /\ SubSeq(kvs, 1, Len(declared)) = declared
                  /\ IsOmit(Last(kvs).key)
                  /\ Last(kvs).value.size = padding
  /\ last.op = "bitfield" =>
       /\ status = "running"
       /\ LastCtx.offset = last.offset + BytesFor(DeclaredBits(last.frame.pat))
       /\ ObjKeys(ret.entries) = DeclaredNames(last.frame.pat)
       /\ \A x \in reads \ last.reads :
            last.offset <= x /\ x < last.offset + BytesFor(DeclaredBits(last.frame.pat))

\* a bitfield of 9 bits, little-endian by the global option, took two bytes
C14_Witness ==
  /\ Returned("bitfield")
  /\ DeclaredBits(last.frame.pat) = 9
  /\ endian = "little"
  /\ LastCtx.offset = 2
  /\ reads = {0, 1}

\* the number of bytes the leaf that just ran was to read
SpanLength ==
  CASE last.op \in {"typed", "bool"} -> DocWidth(last.frame.pat)
    [] last.op = "string" -> CountOf(last.frame)
    [] last.op = "bitfield" -> DeclaredBytes(last.frame.pat)

\* C15: a primitive, a string or a bitfield whose span [o, o + len) extends
\* past the end of the buffer makes the decode fail: Binpat.exec throws and
\* returns no result
C15_FailFast ==
  (last.op \in {"typed", "bool", "string", "bitfield"}
     /\ last.offset >= 0 /\ SpanLength >= 0 /\ last.offset + SpanLength > Len(buf)) =>
    /\ status = "error"
    /\ ret = NoValue

\* C16: a spread field whose sub-pattern decodes to a value that is not a
\* mapping makes the decode report an error; the value is not dropped and not
\* merged index by index
C16_SpreadOfNonMapping ==
  \A key \in {spread(R1), spread(R2)} :
    (last.op = "object" /\ last.pc = "wait"
       /\ key = last.frame.pat.entries[last.frame.i].key
       /\ last.ret.t \in {"number", "boolean", "string", "Array", "TypedArray"}) =>
      status = "error"

\* what the condition of the ternary that just ran gives on its context
ConditionHolds ==
  LET v == ObjGet(last.heap[last.frame.ctx].data, last.frame.pat.condition.key)
  IN CASE v.t = "boolean" -> v.b
       [] v.t = "number" -> v.mag # <<>>
       [] OTHER -> FALSE

\* C17: ternary evaluates its condition on the current context and executes
\* one pattern on that context, truthy when the condition holds and falsy
\* otherwise; what it returns, reads and leaves as offset is what that pattern
\* returned, read and left.  Without falsy and with a condition that does not
\* hold it returns undefined, throws nothing, reads nothing and leaves the
\* offset unchanged
C17_Ternary ==
  /\ last.op = "ternary" => status = "running"
  /\ Called("ternary") =>
       /\ last.pc = "call"
       /\ Top.pat = IF ConditionHolds THEN last.frame.pat.truthy ELSE last.frame.pat.falsy
       /\ Top.pat # NoPattern
       /\ Top.ctx = last.frame.ctx
       /\ Top.off0 = last.offset
       /\ ctxs = last.heap
       /\ reads = last.reads
  /\ Returned("ternary") =>
       /\ ctxs = last.heap
       /\ reads = last.reads
       /\ IF last.pc = "wait" THEN ret = last.ret
          ELSE /\ ~ConditionHolds
               /\ last.frame.pat.falsy = NoPattern
               /\ ret = Undefined
  /\ (status = "done" /\ pattern = Chosen(u8, i8) /\ Len(buf) = 3) =>
       result = Object(<<[key |-> K("flag"), value |-> Bool(buf[1] # 0)],
                         [key |-> K("value"),
                          value |-> IF buf[1] # 0 \/ buf[2] < 128 THEN Number(buf[2])
                                    ELSE Number(buf[2] - 256)],
                         [key |-> K("next"), value |-> ByteAt(2)]>>)
  /\ (status = "done" /\ pattern = Chosen(u16("undefined"), NoPattern) /\ buf[1] = 0) =>
       result = Object(<<[key |-> K("flag"), value |-> Bool(FALSE)],
                         [key |-> K("value"), value |-> Undefined],
                         [key |-> K("next"), value |-> ByteAt(1)]>>)

\* a ternary without falsy returned undefined at offset 1
C17_Witness ==
  /\ Returned("ternary")
  /\ last.pc = "call"
  /\ last.frame.pat.falsy = NoPattern
  /\ last.offset = 1
  /\ LastCtx.offset = 1
  /\ ret = Undefined

\* C18: every Binpat.exec starts from its own root context (offset 0, empty
\* data, no parent) and an empty stack of activations, whatever the decode
\* before left; so any two decodes of equal buffers by one instance gave equal
\* results, whichever decodes came between them
C18_Deterministic ==
  /\ last.op = "exec" =>
       /\ ctxs = <<Context(endian, 0, 0, <<>>)>>
       /\ stack = <<Frame(pattern, 1, 0, {})>>
       /\ reads = {}
       /\ ret = NoValue
  /\ \A i, j \in DOMAIN memo.runs :
       memo.runs[i].buf = memo.runs[j].buf => memo.runs[i].result = memo.runs[j].result

\* one instance decoded a buffer, then another one, then the first again, and
\* the first decode gave an object and the second one something else
C18_Witness ==
  /\ Len(memo.runs) = 3
  /\ memo.runs[1].buf = memo.runs[3].buf
  /\ memo.runs[2].buf # memo.runs[1].buf
  /\ memo.runs[1].result.t = "object"
  /\ memo.runs[2].result # memo.runs[1].result
  /\ status = "done"

\* C19: from the call of Binpat.exec on, whether the decode is running, has
\* returned or has failed, the bytes of the buffer are those it was called with
C19_BufferUnchanged == buf = given

\* a little-endian bitfield of two bytes or more was decoded from bytes that
\* do not read the same backwards
C19_Witness ==
  /\ status = "done"
  /\ pattern.k = "bitfield"
  /\ EndianFor(pattern) = "little"
  /\ DeclaredBytes(pattern) >= 2
  /\ Len(buf) >= DeclaredBytes(pattern)
  /\ buf[1] # buf[DeclaredBytes(pattern)]
  /\ result.t = "object"

\* an activation of peek is in progress
InsidePeek == \E i \in DOMAIN stack : stack[i].pat.k = "peek"

\* C20: outside peek, no step of a decode leaves the offset of the context it
\* ran on smaller than it found it, seek and skip included
C20_OffsetMonotone ==
  (last.op \notin {"new", "exec", "return", "peek"} /\ ~InsidePeek) =>
    LastCtx.offset >= last.offset

\* C21: whatever the calls of random() return, a Structure declared with two
\* omit() fields, or with two spread() fields, between a and b keeps both as
\* entries of its own, and a decode of four bytes executes the four fields
C21_FreshTokens ==
  \A s, t \in random :
    (pattern \in {Twice(omit(s), omit(t), u8, u8),
                  Twice(spread(s), spread(t), Structure(<<Field(K("c"), u8)>>),
                        Structure(<<Field(K("d"), u8)>>))}
       /\ status = "done" /\ Len(buf) >= 4) =>
      /\ Len(pattern.entries) = 4
      /\ reads = {0, 1, 2, 3}
      /\ ObjGet(result.entries, K("b")) = ByteAt(3)

\* does the field `key`, having returned value, write the name n into data
FieldGives(key, value, n) ==
  IF IsSpread(key) THEN ObjHas(OwnEntries(value), n)
  ELSE ~IsOmit(key) /\ key = n

\* what it writes under n
GivenValue(key, value, n) ==
  IF IsSpread(key) THEN ObjGet(OwnEntries(value), n) ELSE value

\* the fields among the first Len(vals) that wrote n, vals being their results
Writers(fields, vals, n) ==
  {j \in 1..Len(vals) : FieldGives(fields[j].key, vals[j], n)}

LastOf(S) == CHOOSE x \in S : \A y \in S : y <= x

\* data holds the names the fields 1..Len(vals) wrote, each with the value of
\* the last of them that wrote it, and no other name
Visible(data, fields, vals) ==
  /\ \A e \in 1..Len(data) :
       LET n == data[e].key
           w == Writers(fields, vals, n)
       IN /\ w # {}
          /\ data[e].value = GivenValue(fields[LastOf(w)].key, vals[LastOf(w)], n)
  /\ \A j \in 1..Len(vals) :
       /\ IsSpread(fields[j].key) =>
            \A e \in 1..Len(OwnEntries(vals[j])) : ObjHas(data, OwnEntries(vals[j])[e].key)
       /\ (~IsSpread(fields[j].key) /\ ~IsOmit(fields[j].key)) => ObjHas(data, fields[j].key)

\* what the fields returned is recorded as they return
ValuesRecorded ==
  (Called("object") /\ last.pc = "wait") =>
    stack[last.depth].vals = Append(last.frame.vals, last.ret)

\* the fields, as declared, of Structures of the model
DeclaredFields ==
  {<<Field(K("a"), u8), Field(K("b"), u8)>>,
   <<Field(K("b"), u8), Field(K("1"), u8)>>,
   <<Field(K("size"), u8), Field(K("text"), string(DataOf(K("size")))), Field(K("next"), u8)>>}

C23_OffsetBubbles ==
  /\ \A d \in DOMAIN stack :
       (status = "running" /\ stack[d].pat.k = "object" /\ stack[d].pc = "wait") =>
         ctxs[stack[d].ctx].offset = stack[d].off0
  /\ Returned("object") =>
       /\ LastCtx.offset = (IF last.pc = "call" THEN last.offset
                            ELSE last.heap[last.frame.scope].offset)
       /\ last.pc = "wait" => ctxs[last.frame.scope].offset = LastCtx.offset
       /\ \A c \in DOMAIN last.heap :
            c # last.frame.ctx => ctxs[c].offset = last.heap[c].offset
       /\ last.frame.pat = Item =>
            /\ LastCtx.offset = last.frame.off0 + 3
            /\ reads = last.frame.reads0 \cup {last.frame.off0 + x : x \in 0..2}
  /\ (Called("array") /\ Top.pat = Item) =>
       Top.off0 = stack[last.depth].off0 + 3 * (stack[last.depth].i - 1)

\* the second element of array({ id: u16(), enabled: bool() }, 2) returned:
\* it started at offset 3 and left its caller's context at offset 6
C23_Witness ==
  /\ Returned("object")
  /\ pattern = array(Item, Lit(2))
  /\ last.frame.pat = Item
  /\ last.frame.off0 = 3
  /\ last.offset = 3
  /\ LastCtx.offset = 6

\* the unsigned integer the k <= 3 bytes at offset o hold, least significant
\* byte first
RECURSIVE LittleValue(_, _)
LittleValue(o, k) ==
  IF k = 0 THEN 0 ELSE buf[o + 1] + 256 * LittleValue(o + 1, k - 1)

\* C24: little-endian and LSb-first, the i-th field of a bitfield over k bytes
\* that hold the little-endian unsigned integer V has the width_i bits of V
\* that start at the bit whose position, counted from the least significant
\* one, is the sum of the widths of the fields before it, so that the trailing
\* padding is the most significant bits of V; the result has the named fields in
\* the order of the layout
C24_LittleLSb ==
  /\ (BitfieldRead /\ EndianFor(last.frame.pat) = "little"
        /\ FirstFor(last.frame.pat) = "LSb" /\ DeclaredBytes(last.frame.pat) <= 3) =>
       LET p == last.frame.pat
           V == LittleValue(last.offset, DeclaredBytes(p))
       IN /\ ObjKeys(ret.entries) = DeclaredNames(p)
          /\ \A i \in 1..Len(p.field) :
               LET def == p.field[i].value
                   start == WidthsBefore(p.field, i - 1)
               IN ~IsOmit(p.field[i].key) =>
                    ObjGet(ret.entries, p.field[i].key)
                      = FieldValue(def.type, def.size, (V \div Pow2(start)) % Pow2(def.size))
  /\ (status = "done" /\ buf = <<85, 204>> /\ option = "little"
        /\ pattern = bitfield(DocLayout, BitfieldOption("undefined", "LSb"))) =>
       result = Object(<<[key |-> K("a"), value |-> Number(5)],
                         [key |-> K("b"), value |-> Number(2)],
                         [key |-> K("c"), value |-> Number(-13)],
                         [key |-> K("d"), value |-> Bool(TRUE)]>>)

\* under a global 'little', sixteen bits and a flag were decoded from three
\* bytes: x is the first two bytes as a little-endian integer, y is the lowest
\* bit of the third, whose seven other bits are the padding
C24_Witness ==
  /\ status = "done"
  /\ option = "little"
  /\ pattern = bitfield(<<Field(K("x"), Bits(16)), Field(K("y"), bitfield_bool)>>, NoOption)
  /\ buf = <<1, 255, 1>>
  /\ result = Object(<<[key |-> K("x"), value |-> Number(65281)],
                       [key |-> K("y"), value |-> Bool(TRUE)]>>)

\* the fields, as declared, of Structures in which a name is written twice
CollidingFields ==
  {<<Field(spread(R1), Pair), Field(K("b"), u16("undefined"))>>,
   <<Field(spread(R1), Pair), Field(spread(R2), Inner)>>,
   <<Field(spread(R1), Structure(<<Field(K("1"), u8)>>)), Field(K("1"), u8)>>}

\* what the Structure that is returning got from each of its fields, in the
\* order of its entries
FieldResults ==
  IF last.pc = "call" THEN <<>> ELSE Append(last.frame.vals, last.ret)

\* the place among the entries of the Structure of the field declared j-th
EntryOf(fields, j) ==
  CHOOSE e \in 1..Len(last.frame.pat.entries) :
    last.frame.pat.entries[e].key = fields[j].key

EnclosingScope(d) ==
  LET below == {x \in 1..(d - 1) : stack[x].pat.k = "object"}
  IN IF below = {} THEN 1 ELSE stack[LastOf(below)].scope

\* C26: only a Structure opens a scope.  Sequence, array, ternary, convert and
\* peek call their sub-pattern on the context they received, and no step but
\* the start of a Structure adds a context; a Structure starts on a new context
\* with empty data whose parent is the context it received, which is the
\* context of the nearest enclosing Structure or the root context; when a
\* Structure returns, the data of every other context is what it was, so a
\* Structure under peek, array or ternary writes nothing into the enclosing data
C26_Scopes ==
  /\ \A op \in {"Array", "array", "ternary", "convert", "peek"} :
       Called(op) => Top.ctx = last.frame.ctx /\ Len(ctxs) = Len(last.heap)
  /\ (status = "running" /\ last.op \notin {"new", "exec", "return"}
        /\ ~(last.op = "object" /\ last.pc = "call")) =>
       Len(ctxs) = Len(last.heap)
  /\ (Called("object") /\ last.pc = "call") =>
       /\ Len(ctxs) = Len(last.heap) + 1
       /\ Top.ctx = Len(ctxs)
       /\ ctxs[Top.ctx] = Context(last.heap[last.frame.ctx].endian, last.frame.ctx,
                                  last.offset, <<>>)
  /\ \A d \in DOMAIN stack :
       (status = "running" /\ stack[d].pat.k = "object" /\ stack[d].pc = "wait") =>
         /\ stack[d].ctx = EnclosingScope(d)
         /\ ctxs[stack[d].scope].parent = EnclosingScope(d)
  /\ \A d \in DOMAIN stack : status = "running" => stack[d].ctx = EnclosingScope(d)
  /\ Returned("object") =>
       \A c \in DOMAIN last.heap :
         (last.pc = "call" \/ c # last.frame.scope) => ctxs[c].data = last.heap[c].data
  /\ ctxs # <<>> => ctxs[1].parent = 0

\* the second element of array({ id: u16(), enabled: bool() }, 2) starts: its
\* context is new, has no data and has the root context as parent, as the
\* context of the first element, which holds the first element's fields
C26_Witness ==
  /\ Called("object")
  /\ last.pc = "call"
  /\ pattern = array(Item, Lit(2))
  /\ last.offset = 3
  /\ Len(ctxs) = 3
  /\ ctxs[3].parent = 1
  /\ ctxs[3].data = <<>>
  /\ ctxs[2].parent = 1
  /\ ObjKeys(ctxs[2].data) = <<K("id"), K("enabled")>>

====
